---- MODULE Spec2Model ----
(***************************************************************************)
(* Membership reconfiguration (GrowCluster, ShrinkCluster) and garbage     *)
(* collection (GarbageCollect) of the CASPaxos protocol package, over a    *)
(* proposer/acceptor engine that honours the Proposer and Acceptor         *)
(* interface contracts.                                                    *)
(***************************************************************************)
EXTENDS Integers, Sequences, FiniteSets, TLC

VARIABLES
    prepareSet,   \* proposer -> acceptors its Prepare messages go to
    acceptSet,    \* proposer -> acceptors its Accept messages go to
    counter,      \* proposer -> ballot counter
    prop,         \* proposer -> the Propose call it is running
    ncp,          \* number of client Propose calls made so far
    reg,          \* acceptor -> key -> register
    lastAcked,    \* key -> value of the latest successful Propose (history)
    rc,           \* the GrowCluster / ShrinkCluster call of the operator
    nrc,          \* number of reconfiguration calls started so far
    perIter,      \* build: range loop variable is per-iteration (go >= 1.22)
    gc,           \* the GarbageCollect call
    ctxDone,      \* the context of GarbageCollect is cancelled
    adv,          \* the calculateAdvertiseIP call
    bc            \* the call of a broadcast helper of the garbage collection

vars == <<prepareSet, acceptSet, counter, prop, ncp, reg, lastAcked, rc, nrc,
          perIter, gc, ctxDone, adv, bc>>

cfgVars == <<prepareSet, acceptSet>>

rcVars == <<rc, nrc, perIter, ncp>>

gcVars == <<gc, ctxDone>>

helperVars == <<adv, bc>>

----------------------------------------------------------------------------
\* Bounds of the model.

\* Highest ballot counter a proposer issues.
MaxCounter == 2

\* Number of GrowCluster / ShrinkCluster calls the operator makes in a run.
MaxReconfigs == 2

\* Number of Propose calls the clients make in a run.
MaxClientProposes == 1

----------------------------------------------------------------------------
\* The cluster.

Proposers == {1, 2}

\* The proposers argument of GrowCluster / ShrinkCluster: the full list.
proposers == <<1, 2>>

Acceptors == {1, 2, 3}

\* The acceptors of the steady state the cluster starts in.
InitialAcceptors == {1, 2}

\* The acceptors argument of GarbageCollect: every acceptor of the cluster.
acceptors == InitialAcceptors

zerokeyMutant == "x"

zerokey == ""

Keys == {zerokey, "x"}

\* Values are byte strings; a client's change function appends its own tag.
Empty == <<>>

identity(x) == x

Apply(fn, x, p) == IF fn = "identity" THEN identity(x) ELSE Append(x, p)

IsPrefix(s, t) == Len(s) <= Len(t) /\ SubSeq(t, 1, Len(s)) = s

----------------------------------------------------------------------------
\* Ballots: (counter, proposer-id), compared lexicographically.

BalBase == Cardinality(Proposers) + 1

Ballot(c, p) == c * BalBase + p

Counter(b) == b \div BalBase

Max(a, b) == IF a >= b THEN a ELSE b

----------------------------------------------------------------------------
\* Quorums.

MajorityMutant(S) == Cardinality(S) \div 2

Majority(S) == Cardinality(S) \div 2 + 1

\* Size of the quorum a Propose needs among the acceptors S of a phase.
QuorumSize(S, full) == IF full THEN Cardinality(S) ELSE Majority(S)

\* The quorums of a phase sent to S: the subsets of S of quorum size or more.
Quorums(S) == {Q \in SUBSET S : Cardinality(Q) >= Majority(S)}

----------------------------------------------------------------------------
\* Acceptor registers.

NoReg == [present |-> FALSE, promised |-> 0, accepted |-> 0, val |-> Empty]

\* Prepare(key, b) on acceptor a succeeds iff b is above the promised ballot.
PrepareOk(a, k, b) == b > reg[a][k].promised

\* Accept(key, b, v) on acceptor a succeeds iff b is at least the promised ballot.
AcceptOk(a, k, b) == b >= reg[a][k].promised

----------------------------------------------------------------------------
\* Proposer: one Propose call at a time.

IdleProp ==
    [phase |-> "idle", key |-> zerokey, fn |-> "identity", full |-> FALSE,
     caller |-> "none", bal |-> 0, targets |-> {}, acks |-> {}, best |-> 0,
     cur |-> Empty, new |-> Empty, since |-> Empty, err |-> "nil"]

\* The proposer runs no Propose: it is idle, or the Propose it ran for a
\* client has returned.
Free(p) ==
    \/ prop[p].phase = "idle"
    \/ prop[p].caller = "client" /\ prop[p].phase = "ok"

\* Propose(key, f) begins: a fresh ballot, Prepare goes to the PrepareSet.
StartPropose(p, k, fn, full, caller) ==
    /\ Free(p)
    /\ counter[p] < MaxCounter
    /\ counter' = [counter EXCEPT ![p] = @ + 1]
    /\ prop' = [prop EXCEPT ![p] =
                  [phase |-> "prepare", key |-> k, fn |-> fn, full |-> full,
                   caller |-> caller, bal |-> Ballot(counter[p] + 1, p),
                   targets |-> prepareSet[p], acks |-> {}, best |-> 0,
                   cur |-> Empty, new |-> Empty, since |-> lastAcked[k],
                   err |-> "nil"]]

\* Acceptor a answers the Prepare of p's Propose: a promise, or a conflict
\* on which the proposer fast-forwards its counter.
PrepareAt(p, a) ==
    LET c == prop[p] r == reg[a][c.key] IN
    /\ c.phase = "prepare"
    /\ a \in c.targets \ c.acks
    /\ IF PrepareOk(a, c.key, c.bal)
       THEN /\ reg' = [reg EXCEPT ![a][c.key] =
                         [@ EXCEPT !.present = TRUE, !.promised = c.bal]]
            /\ prop' = [prop EXCEPT ![p] =
                          [@ EXCEPT !.acks = @ \cup {a},
                                    !.best = Max(@, r.accepted),
                                    !.cur = IF r.accepted >= c.best
                                            THEN r.val ELSE @]]
            /\ UNCHANGED counter
       ELSE /\ counter[p] < Counter(r.promised)
            /\ counter' = [counter EXCEPT ![p] = Counter(r.promised)]
            /\ UNCHANGED <<helperVars, reg, prop>>
    /\ UNCHANGED <<helperVars, cfgVars, lastAcked, rcVars, gcVars>>

\* A prepare quorum answered: apply the change function to the value of the
\* highest accepted ballot, Accept goes to the AcceptSet.
PrepareQuorum(p) ==
    LET c == prop[p] IN
    /\ c.phase = "prepare"
    /\ c.targets # {}
    /\ Cardinality(c.acks) >= QuorumSize(c.targets, c.full)
    /\ prop' = [prop EXCEPT ![p] =
                  [@ EXCEPT !.phase = "accept",
                            !.new = Apply(c.fn, c.cur, p),
                            !.targets = acceptSet[p],
                            !.acks = {}]]
    /\ UNCHANGED <<helperVars, cfgVars, counter, reg, lastAcked, rcVars, gcVars>>

\* Acceptor a answers the Accept of p's Propose.
AcceptAt(p, a) ==
    LET c == prop[p] r == reg[a][c.key] IN
    /\ c.phase = "accept"
    /\ a \in c.targets \ c.acks
    /\ IF AcceptOk(a, c.key, c.bal)
       THEN /\ reg' = [reg EXCEPT ![a][c.key] =
                         [present |-> TRUE, promised |-> c.bal,
                          accepted |-> c.bal, val |-> c.new]]
            /\ prop' = [prop EXCEPT ![p] = [@ EXCEPT !.acks = @ \cup {a}]]
            /\ UNCHANGED counter
       ELSE /\ counter[p] < Counter(r.promised)
            /\ counter' = [counter EXCEPT ![p] = Counter(r.promised)]
            /\ UNCHANGED <<helperVars, reg, prop>>
    /\ UNCHANGED <<helperVars, cfgVars, lastAcked, rcVars, gcVars>>

\* An accept quorum answered: Propose returns (new, ballot).
AcceptQuorum(p) ==
    LET c == prop[p] IN
    /\ c.phase = "accept"
    /\ c.targets # {}
    /\ Cardinality(c.acks) >= QuorumSize(c.targets, c.full)
    /\ prop' = [prop EXCEPT ![p] =
                  [IdleProp EXCEPT !.phase = "ok", !.caller = c.caller,
                                   !.cur = c.cur, !.since = c.since,
                                   !.bal = IF c.caller = "bcast"
                                           THEN c.bal ELSE 0]]
    /\ lastAcked' = [lastAcked EXCEPT ![c.key] = c.new]
    /\ UNCHANGED <<helperVars, cfgVars, counter, reg, rcVars, gcVars>>

\* The errors a failing Propose can return: the bare or a wrapped
\* cancellation error once the context is cancelled, or another error.
ProposeErrors ==
    IF ctxDone THEN {"Canceled", "WrappedCanceled", "Other"} ELSE {"Other"}

\* Propose gives up (no quorum, conflicts exhausted, transport, cancellation):
\* an error, which a client takes at once, and which GrowCluster,
\* ShrinkCluster and GarbageCollect take in their next step.
ProposeFail(p) ==
    /\ prop[p].phase \in {"prepare", "accept"}
    /\ \E e \in ProposeErrors :
         prop' = [prop EXCEPT ![p] =
                    IF prop[p].caller = "client" THEN IdleProp
                    ELSE [IdleProp EXCEPT !.phase = "err",
                                          !.caller = prop[p].caller,
                                          !.err = e]]
    /\ UNCHANGED <<helperVars, cfgVars, counter, reg, lastAcked, rcVars, gcVars>>

\* A client calls Propose(key, f) on proposer p.
ClientPropose(p, k) ==
    /\ ncp < MaxClientProposes
    /\ ncp' = ncp + 1
    /\ StartPropose(p, k, "append", FALSE, "client")
    /\ UNCHANGED <<helperVars, cfgVars, reg, lastAcked, rc, nrc, perIter, gcVars>>

----------------------------------------------------------------------------
\* Proposer configuration calls: AddAccepter, AddPreparer, RemovePreparer,
\* RemoveAccepter.

\* The registration is already in the requested state.
Mismatch(call, p, t) ==
    CASE call = "AddAccepter"    -> t \in acceptSet[p]
      [] call = "RemoveAccepter" -> t \notin acceptSet[p]
      [] call = "AddPreparer"    -> t \in prepareSet[p]
      [] call = "RemovePreparer" -> t \notin prepareSet[p]

\* What the call returns; net = FALSE is a transport failure.
CallResult(call, p, t, net) ==
    IF ~net THEN "Transport"
    ELSE IF Mismatch(call, p, t) THEN "ConfigMismatch" ELSE "ok"

\* The proposer's AcceptSet after a call that returned res.
AcceptAfter(call, p, t, res) ==
    IF res # "ok" THEN acceptSet
    ELSE CASE call = "AddAccepter"    -> [acceptSet EXCEPT ![p] = @ \cup {t}]
           [] call = "RemoveAccepter" -> [acceptSet EXCEPT ![p] = @ \ {t}]
           [] OTHER                   -> acceptSet

\* The proposer's PrepareSet after a call that returned res.
PrepareAfter(call, p, t, res) ==
    IF res # "ok" THEN prepareSet
    ELSE CASE call = "AddPreparer"    -> [prepareSet EXCEPT ![p] = @ \cup {t}]
           [] call = "RemovePreparer" -> [prepareSet EXCEPT ![p] = @ \ {t}]
           [] OTHER                   -> prepareSet

----------------------------------------------------------------------------
\* GrowCluster and ShrinkCluster.

Config == [prepareSet |-> prepareSet, acceptSet |-> acceptSet]

NoCall == [op |-> "none", target |-> 0, ret |-> "none", pre |-> Config]

IdleRc ==
    [op |-> "none", pc |-> "idle", target |-> 0, i |-> 1, undo |-> <<>>,
     lv1 |-> 0, lv3 |-> 0, chosen |-> 0, ret |-> "none", pre |-> Config,
     undoFailed |-> FALSE, undoCalls |-> 0, prev |-> NoCall, log |-> <<>>]

\* The calls GrowCluster / ShrinkCluster has made on the proposers so far
\* are kept in rc.log, in the order they were made: a configuration call of
\* the forward steps with its outcome, the Propose of the identity read, the
\* return of that Propose with its outcome, and a configuration call of the
\* undo stack, whose outcome the closure drops (logged as ok).
Logged(r, call, p, ok, undo) ==
    [r EXCEPT !.log = Append(@, [call |-> call, p |-> p, ok |-> ok,
                                 undo |-> undo])]

\* The call begins: an empty undo stack and the deferred function that plays it.
StartCall(op, t) ==
    /\ rc.pc \in {"idle", "done"}
    /\ nrc < MaxReconfigs
    /\ nrc' = nrc + 1
    /\ rc' = [IdleRc EXCEPT !.op = op, !.pc = "step1", !.target = t,
                            !.pre = Config,
                            !.prev = [op |-> rc.op, target |-> rc.target,
                                      ret |-> rc.ret, pre |-> rc.pre]]
    /\ UNCHANGED <<helperVars, cfgVars, counter, prop, reg, lastAcked, perIter, ncp, gcVars>>

\* The proposer an undo closure calls: the closure refers to the range
\* variable of its loop, which is one variable per loop, holding the value
\* of the last iteration begun, unless the build makes it one per iteration.
UndoProposer(e) ==
    IF perIter THEN e.p ELSE IF e.loop = 1 THEN rc.lv1 ELSE rc.lv3

\* After a return statement: the deferred function plays the undo stack u.
Returned(r, ret, u) ==
    [r EXCEPT !.ret = ret, !.undo = u,
              !.pc = IF u = <<>> THEN "done" ELSE "undo"]

\* One iteration of a loop over the proposers: the configuration call on
\* proposers[i]; on success push its inverse, on failure return the error.
GrowSuccessUndoMutant(u) == u

\* GrowCluster succeeded: the undo stack is replaced by an empty one.
GrowSuccessUndo(u) == <<>>

\* GrowCluster returns nil.
GrowSuccess(r) == Returned(r, "nil", GrowSuccessUndo(r.undo))

ShrinkSuccessUndoMutant(u) == u

\* ShrinkCluster succeeded: the undo stack is replaced by an empty one.
ShrinkSuccessUndo(u) == <<>>

\* ShrinkCluster returns nil.
ShrinkSuccess(r) == Returned(r, "nil", ShrinkSuccessUndo(r.undo))

AfterLoopMutant(op, loop, r) ==
    IF loop = 1 THEN [r EXCEPT !.pc = "step3"]
    ELSE IF op = "grow" THEN GrowSuccess(r) ELSE ShrinkSuccess(r)

\* After the last iteration of a loop: step 1 goes on to the identity read,
\* step 3 to the successful return.
AfterLoop(op, loop, r) ==
    IF loop = 1 THEN [r EXCEPT !.pc = "step2"]
    ELSE IF op = "grow" THEN GrowSuccess(r) ELSE ShrinkSuccess(r)

LoopStep(op, pcName, loop, call, inverse, err) ==
    /\ rc.op = op
    /\ rc.pc = pcName
    /\ LET p == proposers[rc.i]
       IN \E net \in BOOLEAN :
            LET res == CallResult(call, p, rc.target, net)
                r == Logged([rc EXCEPT !.lv1 = IF loop = 1 THEN p ELSE @,
                                       !.lv3 = IF loop = 3 THEN p ELSE @],
                            call, p, res = "ok", FALSE)
                pushed == Append(rc.undo, [call |-> inverse, p |-> p, loop |-> loop])
            IN /\ acceptSet' = AcceptAfter(call, p, rc.target, res)
               /\ prepareSet' = PrepareAfter(call, p, rc.target, res)
               /\ rc' = IF res # "ok" THEN Returned(r, err, rc.undo)
                        ELSE IF rc.i < Len(proposers)
                        THEN [r EXCEPT !.undo = pushed, !.i = @ + 1]
                        ELSE AfterLoop(op, loop, [r EXCEPT !.undo = pushed, !.i = 1])
    /\ UNCHANGED <<helperVars, counter, prop, reg, lastAcked, nrc, perIter, ncp, gcVars>>

\* The identity read: Propose(zerokey, identity) on a proposer picked at random.
IdentityReadCall(op) ==
    /\ rc.op = op
    /\ rc.pc = "step2"
    /\ \E i \in 1..Len(proposers) :
         /\ StartPropose(proposers[i], zerokey, "identity", FALSE, "reconf")
         /\ rc' = Logged([rc EXCEPT !.chosen = proposers[i], !.pc = "wait2"],
                         "Propose", proposers[i], TRUE, FALSE)
    /\ UNCHANGED <<helperVars, cfgVars, reg, lastAcked, nrc, perIter, ncp, gcVars>>

\* The identity read returns: an error is returned, success goes on to step 3.
IdentityReadReturn(op) ==
    /\ rc.op = op
    /\ rc.pc = "wait2"
    /\ prop[rc.chosen].caller = "reconf"
    /\ prop[rc.chosen].phase \in {"ok", "err"}
    /\ prop' = [prop EXCEPT ![rc.chosen] = IdleProp]
    /\ LET r == Logged(rc, "ProposeReturn", rc.chosen,
                       prop[rc.chosen].phase = "ok", FALSE)
       IN rc' = IF prop[rc.chosen].phase = "err"
                THEN Returned(r, "step2", rc.undo)
                ELSE [r EXCEPT !.pc = "step3", !.i = 1]
    /\ UNCHANGED <<helperVars, cfgVars, counter, reg, lastAcked, nrc, perIter, ncp, gcVars>>

\* The deferred function: the last closure of the undo stack runs; what its
\* configuration call returns is dropped.
UndoStep(op) ==
    /\ rc.op = op
    /\ rc.pc = "undo"
    /\ LET e == rc.undo[Len(rc.undo)]
           q == UndoProposer(e)
           rest == SubSeq(rc.undo, 1, Len(rc.undo) - 1)
       IN \E net \in BOOLEAN :
            LET res == CallResult(e.call, q, rc.target, net)
            IN /\ acceptSet' = AcceptAfter(e.call, q, rc.target, res)
               /\ prepareSet' = PrepareAfter(e.call, q, rc.target, res)
               /\ rc' = [Logged(rc, e.call, q, TRUE, TRUE)
                           EXCEPT !.undo = rest,
                                   !.undoCalls = @ + 1,
                                   !.undoFailed = @ \/ res = "Transport",
                                   !.pc = IF rest = <<>> THEN "done" ELSE "undo"]
    /\ UNCHANGED <<helperVars, counter, prop, reg, lastAcked, nrc, perIter, ncp, gcVars>>

\* GrowCluster(ctx, target, proposers) is called.
GrowStart(t) == StartCall("grow", t)

\* Grow step 1: AddAccepter on each proposer, undone by RemoveAccepter.
GrowStep1 ==
    LoopStep("grow", "step1", 1, "AddAccepter", "RemoveAccepter", "step1")

\* Grow step 2: the identity read.
GrowStep2Call == IdentityReadCall("grow")

GrowStep2Return == IdentityReadReturn("grow")

\* Grow step 3: AddPreparer on each proposer, undone by RemovePreparer;
\* after the last one GrowCluster returns nil.
GrowStep3 ==
    LoopStep("grow", "step3", 3, "AddPreparer", "RemovePreparer", "step3")

GrowUndo == UndoStep("grow")

\* ShrinkCluster(ctx, target, proposers) is called.
ShrinkStart(t) == StartCall("shrink", t)

\* Shrink step 1: RemovePreparer on each proposer, undone by AddPreparer.
ShrinkStep1 ==
    LoopStep("shrink", "step1", 1, "RemovePreparer", "AddPreparer", "step1")

\* Shrink step 2: the identity read.
ShrinkStep2Call == IdentityReadCall("shrink")

ShrinkStep2Return == IdentityReadReturn("shrink")

\* Shrink step 3: RemoveAccepter on each proposer, undone by AddAccepter;
\* after the last one ShrinkCluster returns nil.
ShrinkStep3 ==
    LoopStep("shrink", "step3", 3, "RemoveAccepter", "AddAccepter", "step3")

ShrinkUndo == UndoStep("shrink")

----------------------------------------------------------------------------
\* GarbageCollect.

\* Attempts (calls of FullIdentityRead) of one GarbageCollect call.
MaxAttempts == 2

\* No GarbageCollect call has returned yet.
NoRun == [ret |-> "none"]

\* No GarbageCollect call is made.
IdleGc == [pc |-> "idle"]

\* GarbageCollect(ctx, key, t, proposers, acceptors, logger) is called for a
\* key whose committed state is state: its arguments and locals, the number
\* of attempts and of the run, and what the first run left behind.
NewGc(key, tombstone, state) ==
    [pc |-> "called", key |-> key, tombstone |-> tombstone, state |-> state,
     proposer |-> 0, err |-> "nil", ret |-> "none", attempts |-> 0,
     run |-> 1, first |-> NoRun]

\* ctx.Err() of the cancelled context.
CtxErr == "Canceled"

\* FullIdentityRead(ctx, key) on a proposer picked at random: Propose(key,
\* identity) that needs every acceptor of both sets to acknowledge.
FullIdentityRead(g) ==
    \E i \in 1..Len(proposers) :
        /\ StartPropose(proposers[i], g.key, "identity", TRUE, "gc")
        /\ gc' = [g EXCEPT !.proposer = proposers[i], !.pc = "reading",
                           !.attempts = @ + 1]

\* GarbageCollect(ctx, key, t, proposers, acceptors, logger) is called and
\* its loop begins the first attempt.
GCCall ==
    /\ gc.pc = "called"
    /\ FullIdentityRead(gc)
    /\ UNCHANGED <<helperVars, cfgVars, reg, lastAcked, rcVars, ctxDone>>

SelectOnErrorMutant(done) == "return"

\* The select after a failed attempt: the context's Done channel is ready
\* when the context is cancelled, the one-second timer is not yet.
SelectOnError(done) == IF done THEN "return" ELSE "block"

\* FullIdentityRead returns: the bare cancellation error is returned; another
\* error goes to the select; success falls through phases (b) to (d), which
\* are empty, and returns nil.
GCReadReturn ==
    LET c == prop[gc.proposer]
        err == IF c.phase = "ok" THEN "nil" ELSE c.err
        g == [gc EXCEPT !.err = err]
    IN /\ gc.pc = "reading"
       /\ c.caller = "gc"
       /\ c.phase \in {"ok", "err"}
       /\ prop' = [prop EXCEPT ![gc.proposer] = IdleProp]
       /\ gc' = IF err = "Canceled"
                THEN [g EXCEPT !.pc = "returned", !.ret = err]
                ELSE IF err # "nil"
                THEN IF SelectOnError(ctxDone) = "return"
                     THEN [g EXCEPT !.pc = "returned", !.ret = CtxErr]
                     ELSE [g EXCEPT !.pc = "backoff"]
                ELSE [g EXCEPT !.pc = "returned", !.ret = "nil"]
       /\ UNCHANGED <<helperVars, cfgVars, counter, reg, lastAcked, rcVars, ctxDone>>

TimerFirstMutant(done) == TRUE

\* The blocked select takes the timer's case: the timer fired before the
\* context was cancelled.
TimerFirst(done) == ~done

\* The back-off ends with the timer: continue, the next attempt begins.
GCBackoffTimer ==
    /\ gc.pc = "backoff"
    /\ TimerFirst(ctxDone)
    /\ gc.attempts < MaxAttempts
    /\ FullIdentityRead(gc)
    /\ UNCHANGED <<helperVars, cfgVars, reg, lastAcked, rcVars, ctxDone>>

\* The back-off ends with the context's Done channel: return ctx.Err().
GCBackoffCancel ==
    /\ gc.pc = "backoff"
    /\ ctxDone
    /\ gc' = [gc EXCEPT !.pc = "returned", !.ret = CtxErr]
    /\ UNCHANGED <<helperVars, cfgVars, counter, prop, reg, lastAcked, rcVars, ctxDone>>

\* GarbageCollect has returned and is called a second time with the same
\* arguments; what the first call returned and left behind is recorded.
GCSecondCall ==
    /\ gc.pc = "returned"
    /\ gc.run = 1
    /\ gc' = [gc EXCEPT !.pc = "called", !.run = 2, !.proposer = 0,
                        !.err = "nil", !.ret = "none", !.attempts = 0,
                        !.first = [ret |-> gc.ret, reg |-> reg,
                                   counter |-> counter, cfg |-> Config]]
    /\ UNCHANGED <<helperVars, cfgVars, counter, prop, reg, lastAcked, rcVars, ctxDone>>

\* The caller cancels the context.
Cancel ==
    /\ ~ctxDone
    /\ ctxDone' = TRUE
    /\ UNCHANGED <<helperVars, cfgVars, counter, prop, reg, lastAcked, rcVars, gc>>

----------------------------------------------------------------------------
\* calculateAdvertiseIP(bindHost, advertiseHost, r, logger).

\* Most addresses a lookup of the resolver returns.
MaxAddrs == 2

\* Host strings: empty, IP literals of both families, a host name.
Hosts == {"", "0.0.0.0", "1.2.3.4", "::1", "host"}

IsV4(a) == a \in {"0.0.0.0", "1.2.3.4", "10.0.0.1"}

IsV6(a) == a \in {"::1"}

\* A net.IP: the address and the length of its byte slice; nil is NoIP.
NoIP == [a |-> "nil", len |-> 0]

\* net.ParseIP: the 16-byte form of an IP literal of either family, or nil.
ParseIP(h) == IF IsV4(h) \/ IsV6(h) THEN [a |-> h, len |-> 16] ELSE NoIP

\* ip.To4: the 4-byte form of an IPv4 address, or nil.
To4(ip) == IF IsV4(ip.a) THEN [a |-> ip.a, len |-> 4] ELSE NoIP

\* if ip4 := ip.To4(); ip4 != nil { ip = ip4 }
Canonical(ip) == IF To4(ip) # NoIP THEN To4(ip) ELSE ip

\* errors.Wrap(err, msg): nil for a nil err, else err with msg as context.
Wrap(err, msg) == IF err = "nil" THEN "nil" ELSE msg

\* The addresses the resolver knows, and the results of r.LookupIPAddr.
ResolvedIPs == {[a |-> "10.0.0.1", len |-> 16], [a |-> "::1", len |-> 16]}

Lookups ==
    [ips : UNION {[1..n -> ResolvedIPs] : n \in 0..MaxAddrs},
     err : {"nil", "lookup"}]

\* The results of sockaddr.GetPrivateIP.
PrivateIPs ==
    {[ip |-> "", err |-> "sockaddr"], [ip |-> "", err |-> "nil"],
     [ip |-> "10.0.0.1", err |-> "nil"], [ip |-> "garbage", err |-> "nil"]}

ExactlyOneMutant(l) == l.err = "nil" /\ Len(l.ips) >= 1

\* err == nil && len(ips) == 1
ExactlyOne(l) == l.err = "nil" /\ Len(l.ips) = 1

\* What calculateAdvertiseIP returns, and whether it logged the warning.
Result(ip, err, warned) == [ip |-> ip, err |-> err, warned |-> warned]

\* The bind host, once the advertise host gave nothing.
FromBindHost(bindHost, l, private, warned) ==
    IF bindHost = "0.0.0.0"
    THEN IF private.err # "nil"
         THEN Result(NoIP, Wrap(private.err, "failed to deduce private IP"), warned)
         ELSE IF private.ip = ""
         THEN Result(NoIP, Wrap(private.err, "no private IP found"), warned)
         ELSE IF ParseIP(private.ip) = NoIP
         THEN Result(NoIP, "failed to parse private IP", warned)
         ELSE Result(ParseIP(private.ip), "nil", warned)
    ELSE IF ParseIP(bindHost) # NoIP
    THEN Result(ParseIP(bindHost), "nil", warned)
    ELSE IF ExactlyOne(l)
    THEN Result(Canonical(l.ips[1]), "nil", warned)
    ELSE LET err == IF l.err = "nil" /\ Len(l.ips) # 1
                    THEN "bind host resolved to n IPs" ELSE l.err
         IN Result(NoIP, Wrap(err, "bind host failed to resolve"), warned)

\* r holds what the resolver answers for the advertise host and for the
\* bind host; private is what sockaddr.GetPrivateIP answers.
calculateAdvertiseIP(bindHost, advertiseHost, r, private) ==
    IF advertiseHost # "" /\ ParseIP(advertiseHost) # NoIP
    THEN Result(Canonical(ParseIP(advertiseHost)), "nil", FALSE)
    ELSE IF advertiseHost # "" /\ ExactlyOne(r.advertise)
    THEN Result(Canonical(r.advertise.ips[1]), "nil", FALSE)
    ELSE FromBindHost(bindHost, r.bind, private, advertiseHost # "")

\* No calculateAdvertiseIP call is made.
IdleAdv == [pc |-> "idle"]

\* calculateAdvertiseIP is called: its arguments, what the resolver and
\* sockaddr.GetPrivateIP will answer, and what it returns.
NewAdv(bindHost, advertiseHost, r, private) ==
    [pc |-> "called", bindHost |-> bindHost, advertiseHost |-> advertiseHost,
     r |-> r, private |-> private, ret |-> Result(NoIP, "nil", FALSE)]

\* calculateAdvertiseIP runs and returns.
AdvertiseReturn ==
    /\ adv.pc = "called"
    /\ adv' = [adv EXCEPT !.pc = "returned",
                          !.ret = calculateAdvertiseIP(adv.bindHost,
                                      adv.advertiseHost, adv.r, adv.private)]
    /\ UNCHANGED <<cfgVars, counter, prop, reg, lastAcked, rcVars, gcVars, bc>>

----------------------------------------------------------------------------
\* The broadcast helpers of the garbage collection.

Helpers == {"gcBroadcastIdentity", "gcFastForward", "gcRemoveIfEmpty"}

\* The targets of a helper: the proposers, or the acceptors.
Targets(helper) ==
    IF helper = "gcRemoveIfEmpty" THEN acceptors
    ELSE {proposers[i] : i \in 1..Len(proposers)}

\* No broadcast helper is called.
IdleBc == [pc |-> "idle"]

\* The call of a helper: its arguments (key, and arg, the tombstone counter
\* to fast-forward to), the state of the task spawned for each target, the
\* results channel, the receive loop's index, the named results tombstone
\* and err, and every reply sent so far in the order of arrival (history).
NewBc(helper, key, arg) ==
    [pc |-> "called", helper |-> helper, key |-> key, arg |-> arg,
     task |-> <<>>, results |-> <<>>, i |-> 0, tombstone |-> 0, err |-> "nil",
     sent |-> <<>>]

\* A reply on the results channel; the helpers that collect errors only
\* leave state and counter zero.
Reply(state, b, err) == [state |-> state, counter |-> Counter(b), err |-> err]

\* The helper makes the channel and spawns one task per target.
BroadcastSpawn ==
    /\ bc.pc = "called"
    /\ bc' = [bc EXCEPT !.pc = "collecting",
                        !.task = [t \in Targets(bc.helper) |-> "spawned"]]
    /\ UNCHANGED <<cfgVars, counter, prop, reg, lastAcked, rcVars, gcVars, adv>>

\* The task of a target has sent its reply into the buffered channel.
Sent(t, reply) ==
    [bc EXCEPT !.task[t] = "done", !.results = Append(@, reply),
               !.sent = Append(@, reply)]

\* A task of gcBroadcastIdentity calls p.Propose(ctx, key, identity).
WorkerPropose(p) ==
    /\ bc.helper = "gcBroadcastIdentity"
    /\ p \in DOMAIN bc.task
    /\ bc.task[p] = "spawned"
    /\ StartPropose(p, bc.key, "identity", FALSE, "bcast")
    /\ bc' = [bc EXCEPT !.task[p] = "running"]
    /\ UNCHANGED <<cfgVars, reg, lastAcked, rcVars, gcVars, adv>>

\* The Propose of a task returns and the task sends {state, ballot, err}.
WorkerSend(p) ==
    LET c == prop[p] IN
    /\ bc.helper = "gcBroadcastIdentity"
    /\ p \in DOMAIN bc.task
    /\ bc.task[p] = "running"
    /\ c.caller = "bcast"
    /\ c.phase \in {"ok", "err"}
    /\ prop' = [prop EXCEPT ![p] = IdleProp]
    /\ bc' = Sent(p, IF c.phase = "ok" THEN Reply(c.cur, c.bal, "nil")
                     ELSE Reply(Empty, 0, c.err))
    /\ UNCHANGED <<cfgVars, counter, reg, lastAcked, rcVars, gcVars, adv>>

\* A task of gcFastForward: p.FastForward(tombstone), after which every
\* ballot of p has a greater counter, and its result is sent.
WorkerFastForward(p) ==
    /\ bc.helper = "gcFastForward"
    /\ p \in DOMAIN bc.task
    /\ bc.task[p] = "spawned"
    /\ \E net \in BOOLEAN :
         /\ counter' = IF net THEN [counter EXCEPT ![p] = Max(@, bc.arg)]
                       ELSE counter
         /\ bc' = Sent(p, Reply(Empty, 0, IF net THEN "nil" ELSE "Transport"))
    /\ UNCHANGED <<cfgVars, prop, reg, lastAcked, rcVars, gcVars, adv>>

\* a.RemoveIfEmpty(ctx, key): an absent register is fine, a register that
\* was accepted with the empty value is deleted, any other one is not empty.
RemoveIfEmptyResult(r, net) ==
    IF ~net THEN "Transport"
    ELSE IF ~r.present THEN "nil"
    ELSE IF r.val = Empty /\ r.accepted > 0 THEN "nil"
    ELSE "NotEmpty"

\* A task of gcRemoveIfEmpty: a.RemoveIfEmpty(ctx, key), and its result is sent.
WorkerRemoveIfEmpty(a) ==
    /\ bc.helper = "gcRemoveIfEmpty"
    /\ a \in DOMAIN bc.task
    /\ bc.task[a] = "spawned"
    /\ \E net \in BOOLEAN :
         LET res == RemoveIfEmptyResult(reg[a][bc.key], net)
         IN /\ reg' = IF res = "nil"
                      THEN [reg EXCEPT ![a][bc.key] = NoReg] ELSE reg
            /\ bc' = Sent(a, Reply(Empty, 0, res))
    /\ UNCHANGED <<cfgVars, counter, prop, lastAcked, rcVars, gcVars, adv>>

TombstoneMaxMutant(t, c) == c

\* if result.ballot.Counter > tombstone { tombstone = result.ballot.Counter }
TombstoneMax(t, c) == IF c > t THEN c ELSE t

\* The helper returns (tombstone, err).
BroadcastReturn(b, tombstone, err) ==
    [b EXCEPT !.pc = "returned", !.tombstone = tombstone, !.err = err]

\* One iteration of the receive loop of gcBroadcastIdentity on result.
CollectIdentity(b, result) ==
    IF result.err # "nil" THEN BroadcastReturn(b, 0, result.err)
    ELSE IF Len(result.state) # 0 THEN BroadcastReturn(b, 0, "NotEmpty")
    ELSE LET t == TombstoneMax(b.tombstone, result.counter)
         IN IF b.i + 1 < Cardinality(DOMAIN b.task)
            THEN [b EXCEPT !.i = @ + 1, !.tombstone = t]
            ELSE BroadcastReturn([b EXCEPT !.i = @ + 1], t, "nil")

\* One iteration of the receive loop of gcFastForward and gcRemoveIfEmpty.
CollectError(b, result) ==
    IF result.err # "nil" THEN BroadcastReturn(b, 0, result.err)
    ELSE IF b.i + 1 < Cardinality(DOMAIN b.task)
    THEN [b EXCEPT !.i = @ + 1]
    ELSE BroadcastReturn([b EXCEPT !.i = @ + 1], 0, "nil")

\* The helper receives the next result from the channel.
BroadcastCollect ==
    /\ bc.pc = "collecting"
    /\ bc.results # <<>>
    /\ LET b == [bc EXCEPT !.results = Tail(@)]
       IN bc' = IF bc.helper = "gcBroadcastIdentity"
                THEN CollectIdentity(b, Head(bc.results))
                ELSE CollectError(b, Head(bc.results))
    /\ UNCHANGED <<cfgVars, counter, prop, reg, lastAcked, rcVars, gcVars, adv>>

----------------------------------------------------------------------------
\* Reconfiguration from the steady state of the seed scenarios, by an
\* operator who makes one call after the other; the only Propose calls are
\* the identity reads.

InitReconf ==
    /\ prepareSet = [p \in Proposers |-> InitialAcceptors]
    /\ acceptSet = [p \in Proposers |-> InitialAcceptors]
    /\ counter = [p \in Proposers |-> 0]
    /\ prop = [p \in Proposers |-> IdleProp]
    /\ reg = [a \in Acceptors |-> [k \in Keys |-> NoReg]]
    /\ lastAcked = [k \in Keys |-> Empty]
    /\ rc = IdleRc
    /\ nrc = 0
    /\ ncp = 0
    /\ perIter \in BOOLEAN
    /\ gc = IdleGc
    /\ ctxDone = FALSE
    /\ adv = IdleAdv
    /\ bc = IdleBc

\* The targets of the operator's calls: an acceptor of the cluster and one
\* outside of it (the acceptors of the steady state are interchangeable).
ReconfTargets == {2, 3}

NextReconf ==
    \/ \E t \in ReconfTargets : GrowStart(t)
    \/ GrowStep1
    \/ GrowStep2Call
    \/ GrowStep2Return
    \/ GrowStep3
    \/ GrowUndo
    \/ \E t \in ReconfTargets : ShrinkStart(t)
    \/ ShrinkStep1
    \/ ShrinkStep2Call
    \/ ShrinkStep2Return
    \/ ShrinkStep3
    \/ ShrinkUndo
    \/ \E p \in Proposers, a \in Acceptors : PrepareAt(p, a)
    \/ \E p \in Proposers : PrepareQuorum(p)
    \/ \E p \in Proposers, a \in Acceptors : AcceptAt(p, a)
    \/ \E p \in Proposers : AcceptQuorum(p)
    \/ \E p \in Proposers : ProposeFail(p)

SpecReconf == InitReconf /\ [][NextReconf]_vars

----------------------------------------------------------------------------
\* Claims about GrowCluster and ShrinkCluster, under SpecReconf.

\* Every proposer's PrepareSet equals its AcceptSet.
Steady(cfg) == \A p \in Proposers : cfg.prepareSet[p] = cfg.acceptSet[p]

\* Any prepare quorum and any accept quorum of proposer p share an acceptor.
Intersecting(p) ==
    \A Qp \in Quorums(prepareSet[p]), Qa \in Quorums(acceptSet[p]) :
        Qp \cap Qa # {}

\* The call has returned (its deferred undo has run to the end).
CallDone(op) == rc.op = op /\ rc.pc = "done"

C3_GrowErrorRestores ==
    (CallDone("grow") /\ rc.ret # "nil" /\ ~rc.undoFailed) => Config = rc.pre

\* C4: if GrowCluster returns nil, the target is in the AcceptSet and the
\* PrepareSet of every proposer of the list and no undo call was made.
C4_GrowSuccess ==
    (CallDone("grow") /\ rc.ret = "nil") =>
        /\ \A i \in 1..Len(proposers) :
             /\ rc.target \in acceptSet[proposers[i]]
             /\ rc.target \in prepareSet[proposers[i]]
        /\ rc.undoCalls = 0

\* C4 witness: GrowCluster has returned nil.
C4_Witness == CallDone("grow") /\ rc.ret = "nil"

\* The call that has returned is a successful ShrinkCluster of the target
\* that the call before it, a successful GrowCluster, added.
ShrinkAfterGrow ==
    /\ CallDone("shrink")
    /\ rc.ret = "nil"
    /\ rc.prev.op = "grow"
    /\ rc.prev.ret = "nil"
    /\ rc.prev.target = rc.target

\* C5: a successful ShrinkCluster(target) right after a successful
\* GrowCluster(target) leaves every proposer's PrepareSet and AcceptSet as
\* they were before the GrowCluster.
C5_ShrinkUndoesGrow == ShrinkAfterGrow => Config = rc.prev.pre

\* C5 witness: such a ShrinkCluster has returned.
C5_Witness == ShrinkAfterGrow /\ rc.target \notin rc.prev.pre.acceptSet[1]

\* C6: if ShrinkCluster returns an error and no undo call failed in
\* transport, every proposer's PrepareSet and AcceptSet are what they were
\* before the call.
C6_ShrinkErrorRestores ==
    (CallDone("shrink") /\ rc.ret # "nil" /\ ~rc.undoFailed) => Config = rc.pre

----------------------------------------------------------------------------
\* Claims about the calls GrowCluster and ShrinkCluster make, under
\* SpecReconf.

\* Entry j of the log is the forward configuration call `call`.
IsForward(j, call) == rc.log[j].call = call /\ ~rc.log[j].undo

\* Before entry j, `call` succeeded on every proposer of the list.
SucceededOnAllBefore(j, call) ==
    \A i \in 1..Len(proposers) :
        \E k \in 1..(j - 1) :
            rc.log[k] = [call |-> call, p |-> proposers[i], ok |-> TRUE,
                         undo |-> FALSE]

\* Before entry j, the identity Propose returned without an error.
ReadReturnedOkBefore(j) ==
    \E k \in 1..(j - 1) : rc.log[k].call = "ProposeReturn" /\ rc.log[k].ok

\* The Propose of step 2 comes after `first` succeeded on every proposer, and
\* no call of `last` comes before that Propose returned successfully.
Sequenced(first, last) ==
    \A j \in 1..Len(rc.log) :
        /\ rc.log[j].call = "Propose" => SucceededOnAllBefore(j, first)
        /\ IsForward(j, last) => ReadReturnedOkBefore(j)

\* C15: GrowCluster issues the identity Propose only after AddAccepter has
\* succeeded on every proposer of the list, and calls AddPreparer on no
\* proposer before that Propose has returned successfully.
C15_GrowSequenced == rc.op = "grow" => Sequenced("AddAccepter", "AddPreparer")

\* C15 witness: GrowCluster has called AddPreparer.
C15_Witness ==
    /\ rc.op = "grow"
    /\ \E j \in 1..Len(rc.log) : IsForward(j, "AddPreparer")

\* C16: ShrinkCluster issues the identity Propose only after RemovePreparer
\* has succeeded on every proposer of the list, and calls RemoveAccepter on
\* no proposer before that Propose has returned successfully.
C16_ShrinkSequenced ==
    rc.op = "shrink" => Sequenced("RemovePreparer", "RemoveAccepter")

\* C16 witness: ShrinkCluster has called RemoveAccepter.
C16_Witness ==
    /\ rc.op = "shrink"
    /\ \E j \in 1..Len(rc.log) : IsForward(j, "RemoveAccepter")

IsConfigCall(e) == e.call \notin {"Propose", "ProposeReturn"}

IsSucceededForward(e) == IsConfigCall(e) /\ ~e.undo /\ e.ok

IsFailedForward(e) == ~e.undo /\ ~e.ok

IsUndo(e) == e.undo

InverseOf(call) ==
    CASE call = "AddAccepter"    -> "RemoveAccepter"
      [] call = "RemoveAccepter" -> "AddAccepter"
      [] call = "AddPreparer"    -> "RemovePreparer"
      [] call = "RemovePreparer" -> "AddPreparer"

\* The step whose error the call returns is the step of the one forward call
\* that failed, the last forward call made.
ReturnsForwardError ==
    LET failed == SelectSeq(rc.log, IsFailedForward)
        step1 == IF rc.op = "grow" THEN "AddAccepter" ELSE "RemovePreparer"
        step3 == IF rc.op = "grow" THEN "AddPreparer" ELSE "RemoveAccepter"
    IN /\ Len(failed) = 1
       /\ rc.ret = CASE failed[1].call = step1 -> "step1"
                      [] failed[1].call = "ProposeReturn" -> "step2"
                      [] failed[1].call = step3 -> "step3"

\* C17: when GrowCluster or ShrinkCluster has failed, the undo calls made
\* are the inverses of the forward configuration calls that succeeded, each
\* on the proposer of its forward call, in the reverse order, all of them
\* whatever the undo calls returned; and the error returned is that of the
\* forward step that failed.
C17_UndoMirrorsForward ==
    (rc.pc = "done" /\ rc.ret # "nil") =>
        LET fwd == SelectSeq(rc.log, IsSucceededForward)
            und == SelectSeq(rc.log, IsUndo)
        IN /\ Len(und) = Len(fwd)
           /\ \A j \in 1..Len(und) :
                /\ und[j].call = InverseOf(fwd[Len(fwd) + 1 - j].call)
                /\ und[j].p = fwd[Len(fwd) + 1 - j].p
           /\ ReturnsForwardError

\* The Propose calls the reconfiguration call has issued.
IsPropose(e) == e.call = "Propose"

\* C20: GrowCluster and ShrinkCluster issue at most one Propose per call, to
\* a proposer of the list, on the empty key with the identity change
\* function, and none at all when the call fails in step 1.
C20_OneIdentityPropose ==
    rc.op # "none" =>
        LET issued == SelectSeq(rc.log, IsPropose)
        IN /\ Len(issued) <= 1
           /\ \A j \in 1..Len(issued) :
                \E i \in 1..Len(proposers) : issued[j].p = proposers[i]
           /\ \A p \in Proposers :
                prop[p].phase \in {"prepare", "accept"} =>
                    /\ prop[p].key = ""
                    /\ prop[p].fn = "identity"
                    /\ Len(issued) = 1 /\ issued[1].p = p
           /\ rc.ret = "step1" => Len(issued) = 0

\* C20 witness: the Propose of a call is running on one proposer.
C20_Witness ==
    /\ rc.pc = "wait2"
    /\ Len(SelectSeq(rc.log, IsPropose)) = 1
    /\ prop[rc.chosen].phase = "accept"

----------------------------------------------------------------------------
\* Garbage collection of key "x" in a steady cluster: the key was written by
\* proposer 1 at counter 1, the tombstone ballot, with an empty state (seed
\* scenario S5) or a non-empty one (S6), and accepted by a majority or by all.

GcKey == "x"

TombstoneBallot == Ballot(1, 1)

InitGC ==
    /\ prepareSet = [p \in Proposers |-> InitialAcceptors]
    /\ acceptSet = [p \in Proposers |-> InitialAcceptors]
    /\ counter = [p \in Proposers |-> IF p = 1 THEN 1 ELSE 0]
    /\ prop = [p \in Proposers |-> IdleProp]
    /\ \E v \in {Empty, <<1>>}, Q \in Quorums(InitialAcceptors) :
         /\ reg = [a \in Acceptors |-> [k \in Keys |->
                     IF k = GcKey /\ a \in Q
                     THEN [present |-> TRUE, promised |-> TombstoneBallot,
                           accepted |-> TombstoneBallot, val |-> v]
                     ELSE NoReg]]
         /\ lastAcked = [k \in Keys |-> IF k = GcKey THEN v ELSE Empty]
         /\ gc = NewGc(GcKey, TombstoneBallot, v)
    /\ rc = IdleRc
    /\ nrc = 0
    /\ ncp = 0
    /\ perIter = FALSE
    /\ ctxDone \in BOOLEAN
    /\ adv = IdleAdv
    /\ bc = IdleBc

NextGC ==
    \/ GCCall
    \/ GCReadReturn
    \/ GCBackoffTimer
    \/ GCBackoffCancel
    \/ Cancel
    \/ \E p \in Proposers, a \in Acceptors : PrepareAt(p, a)
    \/ \E p \in Proposers : PrepareQuorum(p)
    \/ \E p \in Proposers, a \in Acceptors : AcceptAt(p, a)
    \/ \E p \in Proposers : AcceptQuorum(p)
    \/ \E p \in Proposers : ProposeFail(p)

SpecGC == InitGC /\ [][NextGC]_vars

----------------------------------------------------------------------------
\* Claims about GarbageCollect, under SpecGC.

GcReturned(ret) == gc.pc = "returned" /\ gc.ret = ret

\* C7: when GarbageCollect returns nil for a key whose committed value is
\* empty, no acceptor of the list still holds a register for the key.
C7_GcRemovesRegister ==
    (GcReturned("nil") /\ gc.state = Empty) =>
        \A a \in acceptors : ~reg[a][gc.key].present

\* C8: if the key holds a non-empty value, GarbageCollect never returns nil:
\* what it returns is the cancellation error, and the acceptors that held
\* the key's register (those that accepted the tombstone ballot or a later
\* one) still hold it.
C8_NonEmptyNeverNil ==
    (gc.state # Empty /\ gc.pc = "returned") =>
        /\ gc.ret = CtxErr
        /\ \A a \in acceptors :
             reg[a][gc.key].accepted >= gc.tombstone => reg[a][gc.key].present

\* C9: when GarbageCollect returns nil, every proposer of the list has been
\* fast-forwarded to the tombstone's counter, so that the next ballot it
\* issues has a greater counter.
C9_FastForwarded ==
    GcReturned("nil") =>
        \A i \in 1..Len(proposers) :
            counter[proposers[i]] >= Counter(gc.tombstone)

\* The FullIdentityRead in flight is about to return without an error.
ReadSucceeds == gc.pc = "reading" /\ prop[gc.proposer].phase = "ok"

\* C10: once the context is cancelled while an attempt is in flight or
\* backing off, no further attempt starts, and when the attempt has failed,
\* with whatever error, GarbageCollect returns the cancellation error.
C10_NoRetryAfterCancel ==
    [][(ctxDone /\ gc.pc \in {"reading", "backoff"}) =>
         /\ gc'.attempts = gc.attempts
         /\ (gc'.pc = "returned" /\ ~ReadSucceeds) => gc'.ret = CtxErr]_vars

\* C10 witness: the attempt in flight at the cancellation returned a wrapped
\* cancellation error and GarbageCollect returned the cancellation error.
C10_Witness ==
    /\ ctxDone
    /\ GcReturned(CtxErr)
    /\ gc.err = "WrappedCanceled"

----------------------------------------------------------------------------
\* One call of a broadcast helper on key "x" in a steady cluster: the key
\* was never written, or it was written by proposer 1 at the tombstone
\* ballot with an empty or a non-empty state.

InitBroadcast ==
    /\ prepareSet = [p \in Proposers |-> InitialAcceptors]
    /\ acceptSet = [p \in Proposers |-> InitialAcceptors]
    /\ counter = [p \in Proposers |-> IF p = 1 THEN 1 ELSE 0]
    /\ prop = [p \in Proposers |-> IdleProp]
    /\ \E v \in {Empty, <<1>>}, Q \in Quorums(InitialAcceptors) \cup {{}} :
         /\ Q = {} => v = Empty
         /\ reg = [a \in Acceptors |-> [k \in Keys |->
                     IF k = GcKey /\ a \in Q
                     THEN [present |-> TRUE, promised |-> TombstoneBallot,
                           accepted |-> TombstoneBallot, val |-> v]
                     ELSE NoReg]]
         /\ lastAcked = [k \in Keys |-> IF k = GcKey THEN v ELSE Empty]
    /\ rc = IdleRc
    /\ nrc = 0
    /\ ncp = 0
    /\ perIter = FALSE
    /\ gc = IdleGc
    /\ ctxDone = FALSE
    /\ adv = IdleAdv
    /\ \E h \in Helpers :
         bc = NewBc(h, GcKey, Counter(TombstoneBallot))

NextBroadcast ==
    \/ BroadcastSpawn
    \/ \E p \in Proposers : WorkerPropose(p)
    \/ \E p \in Proposers : WorkerSend(p)
    \/ \E p \in Proposers : WorkerFastForward(p)
    \/ \E a \in Acceptors : WorkerRemoveIfEmpty(a)
    \/ BroadcastCollect
    \/ \E p \in Proposers, a \in Acceptors : PrepareAt(p, a)
    \/ \E p \in Proposers : PrepareQuorum(p)
    \/ \E p \in Proposers, a \in Acceptors : AcceptAt(p, a)
    \/ \E p \in Proposers : AcceptQuorum(p)
    \/ \E p \in Proposers : ProposeFail(p)

SpecBroadcast == InitBroadcast /\ [][NextBroadcast]_vars

\* Every task the helper spawned has sent its reply.
AllReplied == \A t \in DOMAIN bc.task : bc.task[t] = "done"

\* C18: when a broadcast helper has returned, with an error or not, no task
\* it spawned is still to run or running its request: every reply had been
\* sent.
C18_AllCollected == bc.pc = "returned" => AllReplied

\* The greatest ballot counter among the replies.
MaxReplyCounter ==
    CHOOSE m \in {bc.sent[j].counter : j \in 1..Len(bc.sent)} :
        \A j \in 1..Len(bc.sent) : bc.sent[j].counter <= m

\* C19: gcBroadcastIdentity, whatever the replies of the proposers and the
\* order they arrive in: returns an error if a Propose failed; returns
\* NotEmpty if every Propose succeeded and some state is not empty;
\* otherwise returns the greatest ballot counter of the replies as the
\* tombstone; and returns a tombstone other than zero only with a nil error.
C19_BroadcastIdentityResult ==
    (bc.helper = "gcBroadcastIdentity" /\ bc.pc = "returned" /\ AllReplied) =>
        LET n == Len(bc.sent)
            failed == \E j \in 1..n : bc.sent[j].err # "nil"
            nonEmpty == \E j \in 1..n : bc.sent[j].state # Empty
        IN /\ failed => bc.err # "nil"
           /\ (~failed /\ nonEmpty) => bc.err = "NotEmpty"
           /\ (~failed /\ ~nonEmpty) =>
                bc.err = "nil" /\ bc.tombstone = MaxReplyCounter
           /\ bc.tombstone # 0 => bc.err = "nil"

\* C19 witness: the reply with the greatest counter arrived first and
\* gcBroadcastIdentity returned that counter.
C19_Witness ==
    /\ bc.helper = "gcBroadcastIdentity"
    /\ bc.pc = "returned"
    /\ Len(bc.sent) = 2
    /\ bc.sent[1].counter > bc.sent[2].counter
    /\ bc.sent[2].err = "nil"
    /\ bc.tombstone = bc.sent[1].counter

----------------------------------------------------------------------------
\* calculateAdvertiseIP on every combination of hosts, resolver answers and
\* private-IP answers.

InitAdvertise ==
    /\ prepareSet = [p \in Proposers |-> InitialAcceptors]
    /\ acceptSet = [p \in Proposers |-> InitialAcceptors]
    /\ counter = [p \in Proposers |-> 0]
    /\ prop = [p \in Proposers |-> IdleProp]
    /\ reg = [a \in Acceptors |-> [k \in Keys |-> NoReg]]
    /\ lastAcked = [k \in Keys |-> Empty]
    /\ rc = IdleRc
    /\ nrc = 0
    /\ ncp = 0
    /\ perIter = FALSE
    /\ gc = IdleGc
    /\ ctxDone = FALSE
    /\ bc = IdleBc
    /\ \E b \in Hosts, h \in Hosts, la \in Lookups, lb \in Lookups,
          pr \in PrivateIPs :
         adv = NewAdv(b, h, [advertise |-> la, bind |-> lb], pr)

NextAdvertise == AdvertiseReturn

SpecAdvertise == InitAdvertise /\ [][NextAdvertise]_vars

\* The advertise host yields an address: it is an IP literal, or it resolves
\* to exactly one address.
AdvertiseYields ==
    /\ adv.advertiseHost # ""
    /\ \/ ParseIP(adv.advertiseHost) # NoIP
       \/ adv.r.advertise.err = "nil" /\ Len(adv.r.advertise.ips) = 1

\* The call returned the address a and no error.
ReturnsAddr(a) == adv.ret.ip # NoIP /\ adv.ret.ip.a = a /\ adv.ret.err = "nil"

\* The call returned no IP and an error.
ReturnsError == adv.ret.ip = NoIP /\ adv.ret.err # "nil"

\* The private IP is discoverable.
PrivateFound == adv.private.err = "nil" /\ ParseIP(adv.private.ip) # NoIP

\* C13: calculateAdvertiseIP applies its rules in order: an advertise host
\* that is an IP literal is returned; else an advertise host that resolves to
\* exactly one address returns that address; else the bind host decides:
\* "0.0.0.0" returns the private IP (when one is found), a bind host that is
\* an IP literal is returned, and any other bind host is resolved, returning
\* the address when exactly one is found and an error otherwise.
C13_RuleOrder ==
    adv.pc = "returned" =>
        LET h == adv.advertiseHost
            b == adv.bindHost
            la == adv.r.advertise
            lb == adv.r.bind
        IN IF h # "" /\ ParseIP(h) # NoIP THEN ReturnsAddr(h)
           ELSE IF h # "" /\ la.err = "nil" /\ Len(la.ips) = 1
           THEN ReturnsAddr(la.ips[1].a)
           ELSE IF b = "0.0.0.0"
           THEN PrivateFound => ReturnsAddr(adv.private.ip)
           ELSE IF ParseIP(b) # NoIP THEN ReturnsAddr(b)
           ELSE IF lb.err = "nil" /\ Len(lb.ips) = 1
           THEN ReturnsAddr(lb.ips[1].a)
           ELSE ReturnsError

\* C13 witness: the advertise host resolved to two addresses, so that the
\* bind host, a name that resolves to one address, decided.
C13_Witness ==
    /\ adv.pc = "returned"
    /\ adv.advertiseHost = "host"
    /\ adv.r.advertise.err = "nil"
    /\ Len(adv.r.advertise.ips) = 2
    /\ adv.bindHost = "host"
    /\ ReturnsAddr(adv.r.bind.ips[1].a)

\* C14: with bind host "0.0.0.0", no address from the advertise host and no
\* private IP discoverable (an error or an empty result of the lookup),
\* calculateAdvertiseIP returns an error; and it always returns either an IP
\* and no error, or no IP and an error.
C14_FailsWithoutPrivateIP ==
    adv.pc = "returned" =>
        /\ (/\ adv.bindHost = "0.0.0.0"
            /\ ~AdvertiseYields
            /\ (adv.private.err # "nil" \/ adv.private.ip = ""))
           => adv.ret.err # "nil"
        /\ \/ adv.ret.ip # NoIP /\ adv.ret.err = "nil"
           \/ ReturnsError

----------------------------------------------------------------------------
\* GarbageCollect under fair scheduling: a step of GarbageCollect that can be
\* taken is taken, and a Propose whose context is cancelled returns.

FairGC ==
    /\ WF_vars(GCCall)
    /\ WF_vars(GCReadReturn)
    /\ WF_vars(GCBackoffCancel)
    /\ \A p \in Proposers : WF_vars(ctxDone /\ ProposeFail(p))

SpecGCLive == InitGC /\ [][NextGC]_vars /\ FairGC

\* GarbageCollect returns only nil after an attempt that succeeded, or the
\* cancellation error of a cancelled context.
ReturnsOnSuccessOrCancel ==
    gc.pc = "returned" =>
        \/ gc.ret = "nil" /\ gc.err = "nil"
        \/ gc.ret = CtxErr /\ ctxDone

\* An attempt that failed while the context is not cancelled leads to the
\* back-off, and the back-off ends with a new attempt, or with the return of
\* the cancellation error once the context is cancelled.
RetryAfterFailure ==
    /\ (gc.pc = "reading" /\ gc'.pc # "reading"
          /\ prop[gc.proposer].phase = "err" /\ ~ctxDone)
        => gc'.pc = "backoff"
    /\ (gc.pc = "backoff" /\ gc'.pc # "backoff")
        => \/ gc'.pc = "reading" /\ gc'.attempts = gc.attempts + 1
           \/ gc'.pc = "returned" /\ gc'.ret = CtxErr /\ ctxDone

----------------------------------------------------------------------------
\* GarbageCollect called twice in a row with the same arguments.

NextGCTwice ==
    \/ NextGC
    \/ GCSecondCall

SpecGCTwice == InitGC /\ [][NextGCTwice]_vars

\* C12: when GarbageCollect has returned nil and is run again on the same
\* inputs, the context not being cancelled, the second run returns nil and
\* leaves the acceptor registers, the proposer counters and the
\* configuration as the first run left them.
C12_GcIdempotent ==
    (gc.run = 2 /\ gc.pc = "returned" /\ gc.first.ret = "nil" /\ ~ctxDone) =>
        /\ gc.ret = "nil"
        /\ reg = gc.first.reg
        /\ counter = gc.first.counter
        /\ Config = gc.first.cfg

----------------------------------------------------------------------------
\* Client Propose calls on every proposer interleaved with the steps of one
\* GrowCluster or one ShrinkCluster of acceptor 3, from a steady state of two
\* or of three acceptors. The clients write the key of the identity read:
\* keys are independent registers, and on this one the reconfiguration's own
\* Propose meets the clients' writes.

ClientKey == zerokey

SafetyTargets == Acceptors \ InitialAcceptors

InitSafety ==
    /\ \E S \in {InitialAcceptors, Acceptors} :
         /\ prepareSet = [p \in Proposers |-> S]
         /\ acceptSet = [p \in Proposers |-> S]
    /\ counter = [p \in Proposers |-> 0]
    /\ prop = [p \in Proposers |-> IdleProp]
    /\ reg = [a \in Acceptors |-> [k \in Keys |-> NoReg]]
    /\ lastAcked = [k \in Keys |-> Empty]
    /\ rc = IdleRc
    /\ nrc = 0
    /\ ncp = 0
    /\ perIter \in BOOLEAN
    /\ gc = IdleGc
    /\ ctxDone = FALSE
    /\ adv = IdleAdv
    /\ bc = IdleBc

\* The one reconfiguration call of the run.
OneGrowStart(t) == nrc = 0 /\ GrowStart(t)

OneShrinkStart(t) == nrc = 0 /\ ShrinkStart(t)

NextSafety ==
    \/ \E t \in SafetyTargets : OneGrowStart(t)
    \/ GrowStep1
    \/ GrowStep2Call
    \/ GrowStep2Return
    \/ GrowStep3
    \/ GrowUndo
    \/ \E t \in SafetyTargets : OneShrinkStart(t)
    \/ ShrinkStep1
    \/ ShrinkStep2Call
    \/ ShrinkStep2Return
    \/ ShrinkStep3
    \/ ShrinkUndo
    \/ \E p \in Proposers : ClientPropose(p, ClientKey)
    \/ \E p \in Proposers, a \in Acceptors : PrepareAt(p, a)
    \/ \E p \in Proposers : PrepareQuorum(p)
    \/ \E p \in Proposers, a \in Acceptors : AcceptAt(p, a)
    \/ \E p \in Proposers : AcceptQuorum(p)
    \/ \E p \in Proposers : ProposeFail(p)

SpecSafety == InitSafety /\ [][NextSafety]_vars

\* A Propose of proposer p has succeeded.
Succeeded(p) == prop[p].phase = "ok"

====
